---- MODULE Spec2Model ----
(***************************************************************************)
(* Infra Genie: session-and-request orchestration layer.                   *)
(*                                                                         *)
(*   WebviewPanelManager  (src/src/WebviewPanelManager.ts)                 *)
(*   SessionManager       (src/unnamed/part_003)                           *)
(*   BackendAPIClient     (src/unnamed/part_002)                           *)
(*   sanitization         (src/src/sanitization.ts)                        *)
(*                                                                         *)
(* Two specifications share the module:                                    *)
(*   Spec        the extension host: panels, session stores, the message   *)
(*               handlers of WebviewPanelManager and the backend calls     *)
(*               they leave outstanding across their await;                *)
(*   ClientSpec  BackendAPIClient.makeRequest step by step: the fetch, the *)
(*               abort timer, the body read and the catch block.           *)
(***************************************************************************)
EXTENDS Integers, Sequences, FiniteSets, TLC

(***************************************************************************)
(* Bounds of the model.                                                    *)
(***************************************************************************)
\* sendChatMessage messages that get as far as a backend call, in a behaviour
MaxSends == 2
\* requests followed step by step in ClientSpec
MaxRequests == 1
\* largest configured timeout, in clock ticks, in ClientSpec
MaxTimeout == 2
\* pieces in a file name handed to sanitizeFilename
MaxNameLen == 3
\* messages under way between webview and host, in both directions together,
\* beyond which the user waits before the next click that posts one
MaxInTransit == 1
\* turns in the webview's list beyond which the user does not type another
MaxShown == 3

(***************************************************************************)
(* JavaScript values.  A text is a sequence of tokens; a token is a word,  *)
(* a blank, a markup tag or a whole script element.                        *)
(***************************************************************************)
Str(s) == [t |-> "string", v |-> s]
Arr(a) == [t |-> "array", v |-> a]
Undefined == [t |-> "undefined"]
Null == [t |-> "null"]
Obj(o) == [t |-> "object", v |-> o]

WhiteTokens == {" "}
\* tags of the allow-list of sanitizeAPIResponse
AllowedTags == {"<p>", "</p>"}
\* tags outside the allow-list: the tag goes, its content stays
OtherTags == {"<font>", "</font>"}
\* elements removed together with their content
ScriptTokens == {"<script>alert(1)</script>"}

RECURSIVE TrimStart(_)
TrimStart(s) ==
  IF s # <<>> /\ Head(s) \in WhiteTokens THEN TrimStart(Tail(s)) ELSE s

RECURSIVE TrimEnd(_)
TrimEnd(s) ==
  IF s # <<>> /\ s[Len(s)] \in WhiteTokens
  THEN TrimEnd(SubSeq(s, 1, Len(s) - 1)) ELSE s

\* String.prototype.trim
Trim(s) == TrimEnd(TrimStart(s))

IsMarkup(tok) == tok \in AllowedTags \cup OtherTags \cup ScriptTokens

\* purify.sanitize(input, {ALLOWED_TAGS: [], ALLOWED_ATTR: [], KEEP_CONTENT: true})
PurifyNoTags(s) == SelectSeq(s, LAMBDA tok : ~IsMarkup(tok))

\* purify.sanitize(message, {ALLOWED_TAGS: [...], ALLOWED_ATTR: [...]}):
\* a non-string argument is rendered as the empty string
PurifyAllowList(x) ==
  IF x.t # "string" THEN <<>>
  ELSE SelectSeq(x.v, LAMBDA tok : tok \notin OtherTags \cup ScriptTokens)

sanitizeString(input) ==
  IF input.t # "string" THEN <<>> ELSE Trim(PurifyNoTags(input.v))

RECURSIVE MapSanitize(_)
MapSanitize(a) ==
  IF a = <<>> THEN <<>> ELSE <<sanitizeString(Head(a))>> \o MapSanitize(Tail(a))

sanitizeStringArray(input) ==
  IF input.t # "array" THEN <<>>
  ELSE SelectSeq(MapSanitize(input.v), LAMBDA item : Len(item) > 0)

sanitizeUserInput(data) ==
  [appType |-> sanitizeString(data.appType),
   expectedUsers |-> sanitizeString(data.expectedUsers),
   trafficPattern |-> sanitizeString(data.trafficPattern),
   processingType |->
     IF data.processingType = Str(<<"real-time">>) \/ data.processingType = Str(<<"batch">>)
     THEN data.processingType.v[1] ELSE "real-time",
   dataSensitivity |-> sanitizeString(data.dataSensitivity),
   regions |-> sanitizeStringArray(data.regions),
   availabilityRequirement |-> sanitizeString(data.availabilityRequirement),
   detailedDescription |-> sanitizeString(data.detailedDescription)]

sanitizeChatMessage(message) == sanitizeString(message)

\* Boolean(x)
ToBoolean(x) == x.t = "boolean" /\ x.v

\* sanitizeAPIResponse throws a TypeError when the parsed body is null
\* (response.message of null); otherwise it always returns a value
sanitizeAPIResponseThrows(response) == response.t # "object"

sanitizeAPIResponse(response) ==
  [message |-> PurifyAllowList(response.v.message),
   isPRD |-> ToBoolean(response.v.isPRD)]

\* characters sanitizeFilename removes: / \ : * ? " < > |
ForbiddenChars == {"/", "\\", ":", "*", "?", "\"", "<", ">", "|"}

\* leading dots and blanks (/^[.\s]+/)
RECURSIVE StripLeadingDots(_)
StripLeadingDots(s) ==
  IF s # <<>> /\ Head(s) \in {".", " "} THEN StripLeadingDots(Tail(s)) ELSE s

\* trailing dots and blanks (/[.\s]+$/)
RECURSIVE StripTrailingDots(_)
StripTrailingDots(s) ==
  IF s # <<>> /\ s[Len(s)] \in {".", " "}
  THEN StripTrailingDots(SubSeq(s, 1, Len(s) - 1)) ELSE s

\* sanitized.endsWith('.md')
EndsWithMd(s) == Len(s) >= 2 /\ s[Len(s) - 1] = "." /\ s[Len(s)] = "md"

\* variant: the forbidden characters go, leading and trailing dots stay
sanitizeFilename_NoStrip(filename) ==
  IF filename.t # "string" THEN <<"untitled", ".", "md">>
  ELSE LET sanitized == SelectSeq(filename.v, LAMBDA c : c \notin ForbiddenChars)
       IN IF Len(sanitized) = 0 THEN <<"untitled", ".", "md">>
          ELSE IF ~EndsWithMd(sanitized) THEN sanitized \o <<".", "md">>
          ELSE sanitized

\* a file name is a sequence of pieces: a single character or a word
sanitizeFilename(filename) ==
  IF filename.t # "string" THEN <<"untitled", ".", "md">>
  ELSE LET sanitized ==
             StripTrailingDots(StripLeadingDots(
               SelectSeq(filename.v, LAMBDA c : c \notin ForbiddenChars)))
       IN IF Len(sanitized) = 0 THEN <<"untitled", ".", "md">>
          ELSE IF ~EndsWithMd(sanitized) THEN sanitized \o <<".", "md">>
          ELSE sanitized

(***************************************************************************)
(* SessionManager.                                                         *)
(***************************************************************************)
NewSessionManager == [userInput |-> Null, history |-> <<>>]

\* variant: the new intake is stored over the old conversation
initializeSession_KeepsHistory(sm, userInput) ==
  [userInput |-> Obj(userInput), history |-> sm.history]

initializeSession(sm, userInput) == [userInput |-> Obj(userInput), history |-> <<>>]

\* variant: the new turn is put in front of the others
addMessage_Unshift(sm, message) == [sm EXCEPT !.history = <<message>> \o sm.history]

addMessage(sm, message) == [sm EXCEPT !.history = Append(sm.history, message)]

getHistory(sm) == sm.history

\* variant: only the intake is cleared
clearSession_KeepsHistory(sm) == [userInput |-> Null, history |-> sm.history]

clearSession(sm) == [userInput |-> Null, history |-> <<>>]

getUserInput(sm) == sm.userInput

(***************************************************************************)
(* Errors.  An error value carries its class (what instanceof sees), its   *)
(* name and its message.                                                   *)
(***************************************************************************)
NetworkError(message) == [cls |-> "NetworkError", name |-> "NetworkError", message |-> message]

TimeoutError(message) == [cls |-> "TimeoutError", name |-> "TimeoutError", message |-> message]

APIError(message, statusCode) ==
  [cls |-> "APIError", name |-> "APIError", message |-> message, statusCode |-> statusCode]

\* what fetch rejects with when the AbortController aborts it
AbortError == [cls |-> "DOMException", name |-> "AbortError", message |-> "This operation was aborted"]
\* what fetch rejects with when the connection cannot be made
FetchFailed == [cls |-> "TypeError", name |-> "TypeError", message |-> "fetch failed"]
\* what response.json() rejects with on a body that is not JSON
JsonSyntaxError == [cls |-> "SyntaxError", name |-> "SyntaxError", message |-> "Unexpected token"]
\* what sanitizeAPIResponse throws on a null body
NullBodyTypeError ==
  [cls |-> "TypeError", name |-> "TypeError", message |-> "Cannot read properties of null"]

\* error.message.includes('fetch')
MentionsFetch(error) == error.message = "fetch failed"

StatusCodes == {200, 404, 500}

\* response.ok
ResponseOk(status) == status >= 200 /\ status <= 299

\* the APIError thrown for a response that is not ok
ThrowAPIError(status) == APIError("API error", status)

\* variant: the catch block without its AbortError branch
makeRequestCatch_NoAbortBranch(error) ==
  IF error.cls = "APIError" THEN error
  ELSE IF error.cls = "TypeError" /\ MentionsFetch(error)
  THEN NetworkError("Unable to reach the backend API. Please check your internet connection.")
  ELSE NetworkError("Network error")

\* the catch block of makeRequest
makeRequestCatch(error) ==
  IF error.name = "AbortError"
  THEN TimeoutError("Request timed out. The backend API is taking too long to respond.")
  ELSE IF error.cls = "APIError" THEN error
  ELSE IF error.cls = "TypeError" /\ MentionsFetch(error)
  THEN NetworkError("Unable to reach the backend API. Please check your internet connection.")
  ELSE NetworkError("Network error")

(***************************************************************************)
(* Messages from the extension host to the webview (ExtensionMessage).     *)
(***************************************************************************)
Loading(isLoading) == [type |-> "loading", data |-> [isLoading |-> isLoading]]

ChatResponse(message, isPRD) ==
  [type |-> "chatResponse", data |-> [message |-> message, isPRD |-> isPRD]]

SessionCleared == [type |-> "sessionCleared"]

\* the notification of handleChatMessage for an empty message: no canRetry
EmptyMessageError == [type |-> "error", data |-> [message |-> "Message cannot be empty"]]

\* variant: only network errors are retryable
CanRetry_NetworkOnly(error) ==
  IF error.cls = "NetworkError" THEN TRUE
  ELSE IF error.cls = "TimeoutError" THEN FALSE
  ELSE IF error.cls = "APIError" THEN FALSE
  ELSE FALSE

\* the canRetry flag handleError derives from the error
CanRetry(error) ==
  IF error.cls = "NetworkError" THEN TRUE
  ELSE IF error.cls = "TimeoutError" THEN TRUE
  ELSE IF error.cls = "APIError" THEN FALSE
  ELSE FALSE

\* the notification handleError sends
handleError(error) ==
  [type |-> "error", data |-> [message |-> error.message, canRetry |-> CanRetry(error)]]

(***************************************************************************)
(* ChatMessage.  The timestamp field (Date.now()) is written and never     *)
(* read by the host, and is left out.                                      *)
(***************************************************************************)
\* variant: the user turn is stored as a final document
UserMessage_WithFlag(content) == [role |-> "user", content |-> content, isPRD |-> TRUE]

UserMessage(content) == [role |-> "user", content |-> content]

AssistantMessage(content, isPRD) == [role |-> "assistant", content |-> content, isPRD |-> isPRD]

(***************************************************************************)
(* Inputs.                                                                 *)
(***************************************************************************)
\* data.message of a sendChatMessage
RawMessages ==
  { Str(<<" ", "<font>", "Hello", "</font>", " ">>),
    Str(<<" ", "<script>alert(1)</script>", " ">>),
    Undefined }

IntakeA ==
  [appType |-> Str(<<"SaaS">>), expectedUsers |-> Str(<<"1000-10000">>),
   trafficPattern |-> Str(<<"steady">>), processingType |-> Str(<<"real-time">>),
   dataSensitivity |-> Str(<<"confidential">>), regions |-> Arr(<<Str(<<"us-east-1">>)>>),
   availabilityRequirement |-> Str(<<"99.9%">>),
   detailedDescription |-> Str(<<"First", " ", "session">>)]

IntakeB ==
  [appType |-> Str(<<"<font>", "AI", "</font>">>), expectedUsers |-> Str(<<"10000+">>),
   trafficPattern |-> Str(<<"spiky">>), processingType |-> Str(<<"batch">>),
   dataSensitivity |-> Str(<<"public">>),
   regions |-> Arr(<<Str(<<"eu-west-1">>), Str(<<" ">>), Str(<<"us-east-1">>)>>),
   availabilityRequirement |-> Str(<<"99.99%">>),
   detailedDescription |-> Str(<<" ", "Second", " ", "session", " ">>)]

\* a submission the form lets through (its description is not blank) whose
\* description is markup only
IntakeC ==
  [IntakeA EXCEPT !.detailedDescription = Str(<<"<script>alert(1)</script>">>)]

\* data of a submitUserInput
RawIntakes == {IntakeA, IntakeB, IntakeC}

\* data.filename of a savePRD
RawFilenames == {Str(<<".", ".", "/", "etc", "/", "passwd">>)}

\* vscode.workspace.workspaceFolders?.[0]
WorkspaceFolders == {Undefined, Str("/workspace")}

\* the Error handleSavePRD throws without a workspace folder
NoWorkspaceError ==
  [code |-> "none", message |-> "No workspace folder open. Please open a folder first."]

\* what vscode.workspace.fs.writeFile rejects with
WriteFailures ==
  { [code |-> "EACCES", message |-> "permission denied"],
    [code |-> "ENOSPC", message |-> "no space left on device"],
    [code |-> "EIO", message |-> "i/o error"],
    [code |-> "none", message |-> ""] }

Bool(b) == [t |-> "boolean", v |-> b]

\* what response.json() resolves to
Bodies ==
  { Obj([message |-> Str(<<"Hi">>), isPRD |-> Undefined]),
    Obj([message |-> Str(<<"<p>", "doc", "</p>", "<script>alert(1)</script>">>),
         isPRD |-> Bool(TRUE)]),
    Null }

\* what the try block of makeRequest can throw
RequestFailures ==
  {AbortError, FetchFailed, JsonSyntaxError} \cup
  {ThrowAPIError(status) : status \in {c \in StatusCodes : ~ResponseOk(c)}}

Resolved(value) == [settled |-> "resolved", value |-> value]

Rejected(error) == [settled |-> "rejected", error |-> error]

\* how the promise of sendInitialRequest / sendMessage settles
Settlements ==
  {Resolved(body) : body \in Bodies} \cup
  {Rejected(makeRequestCatch(error)) : error \in RequestFailures}

(***************************************************************************)
(* BackendAPIClient fields and makeRequest runs (used by ClientSpec).      *)
(***************************************************************************)
VARIABLES
  baseURL,    \* BackendAPIClient.baseURL
  timeout,    \* BackendAPIClient.timeout, in ticks
  requests    \* the makeRequest runs

clientVars == <<baseURL, timeout, requests>>

(***************************************************************************)
(* The infraGenie settings and their validation (used by ConfigSpec).      *)
(***************************************************************************)
VARIABLES
  configuration,  \* vscode.workspace.getConfiguration('infraGenie')
  loaded          \* the last getValidatedConfiguration call: settings, validation, result

configVars == <<configuration, loaded>>

(***************************************************************************)
(* State of the extension host.  A disposed WebviewPanelManager is only    *)
(* reachable from its own suspended handleChatMessage runs: its store is   *)
(* not kept, and what those runs do to it is recorded in lastOp.           *)
(***************************************************************************)
VARIABLES
  currentPanel,    \* WebviewPanelManager.currentPanel is defined
  livePanels,      \* WebviewPanelManager instances created and not yet disposed
  sessionManager,  \* the SessionManager of the current panel
  pending,         \* handleChatMessage runs suspended at their await, oldest first
  backendCalled,   \* history variable: a backend call was issued in the current session
  sends,           \* history variable: backend calls issued so far
  lastOp,          \* the handler run of the last step, its input and what it did
  emitted          \* the messages the last step posted to the webview

hostVars ==
  <<currentPanel, livePanels, sessionManager, pending, backendCalled, sends, lastOp,
    emitted>>

(***************************************************************************)
(* A file name and what sanitizeFilename makes of it (used by NameSpec).   *)
(***************************************************************************)
VARIABLES
  requestedName,  \* data.filename of a savePRD
  savedAs         \* the last sanitizeFilename call: argument and result

nameVars == <<requestedName, savedAs>>

(***************************************************************************)
(* The React app in the webview and the two message channels (used by      *)
(* WebviewSpec).                                                           *)
(***************************************************************************)
VARIABLES
  app,        \* the state of App: currentView, messages, isLoading, error, canRetry, lastMessage
  toHost,     \* WebviewMessages posted by the app and not yet handled, oldest first
  toWebview   \* ExtensionMessages posted by the host and not yet received, oldest first

webviewVars == <<app, toHost, toWebview>>

\* everything outside the WebviewPanelManager and its webview
outsideVars == <<clientVars, configVars, nameVars>>

vars == <<hostVars, clientVars, configVars, nameVars, webviewVars>>

\* sendMessage: panel.webview.postMessage; nothing reaches a disposed webview
sendMessage(disposed, messages) == IF disposed THEN <<>> ELSE messages

RemoveAt(seq, i) == SubSeq(seq, 1, i - 1) \o SubSeq(seq, i + 1, Len(seq))

\* history variable: the runs of the current panel still awaiting their
\* response have seen their session reset or restarted
MarkStale(runs) ==
  [i \in 1 .. Len(runs) |->
     IF runs[i].disposed THEN runs[i] ELSE [runs[i] EXCEPT !.stale = TRUE]]

\* the runs of the current panel lose their panel
MarkDisposed(runs) ==
  [i \in 1 .. Len(runs) |-> [runs[i] EXCEPT !.disposed = TRUE]]

HostInit ==
  /\ currentPanel = FALSE
  /\ sessionManager = NewSessionManager
  /\ pending = <<>>
  /\ backendCalled = FALSE
  /\ livePanels = 0
  /\ sends = 0
  /\ lastOp = [op |-> "activate"]
  /\ emitted = <<>>

(***************************************************************************)
(* Panel life cycle.                                                       *)
(***************************************************************************)
\* variant: createOrShow does not look at the panel it has
IsDefined_Never(panel) == FALSE

\* if (WebviewPanelManager.currentPanel)
IsDefined(panel) == panel

\* createOrShow with a panel: reveal it
RevealPanel ==
  /\ IsDefined(currentPanel)
  /\ lastOp' = [op |-> "createOrShow", created |-> FALSE]
  /\ emitted' = <<>>
  /\ UNCHANGED <<currentPanel, livePanels, sessionManager, pending, backendCalled, sends>>
  /\ UNCHANGED <<outsideVars, webviewVars>>

\* createOrShow without a panel: the constructor makes a new SessionManager
CreatePanel ==
  /\ ~IsDefined(currentPanel)
  /\ currentPanel' = TRUE
  /\ livePanels' = livePanels + 1
  /\ sessionManager' = NewSessionManager
  /\ lastOp' = [op |-> "createOrShow", created |-> TRUE]
  /\ emitted' = <<>>
  /\ UNCHANGED <<pending, backendCalled, sends>>
  /\ UNCHANGED <<outsideVars, webviewVars>>

dispose ==
  /\ currentPanel
  /\ currentPanel' = FALSE
  /\ sessionManager' = clearSession(sessionManager)
  /\ pending' = MarkDisposed(MarkStale(pending))
  /\ backendCalled' = FALSE
  /\ livePanels' = livePanels - 1
  /\ lastOp' = [op |-> "dispose"]
  /\ emitted' = <<>>
  /\ UNCHANGED sends
  /\ UNCHANGED <<outsideVars, webviewVars>>

(***************************************************************************)
(* handleMessage: one handler per message type.                            *)
(***************************************************************************)
UserInputSubmission(data) ==
    /\ currentPanel
    /\ sessionManager' = initializeSession(sessionManager, sanitizeUserInput(data))
    /\ emitted' = sendMessage(FALSE, <<Loading(FALSE)>>)
    /\ pending' = MarkStale(pending)
    /\ backendCalled' = FALSE
    /\ lastOp' = [op |-> "submitUserInput", data |-> data]
    /\ UNCHANGED <<currentPanel, livePanels, sends>>

\* a submitUserInput message arrives
handleUserInputSubmission ==
  \E data \in RawIntakes :
    UserInputSubmission(data) /\ UNCHANGED <<outsideVars, webviewVars>>

\* variant: the emptiness check is missing
IsEmptyMessage_NoCheck(sanitizedMessage) == FALSE

\* !sanitizedMessage || sanitizedMessage.trim().length === 0
IsEmptyMessage(sanitizedMessage) ==
  sanitizedMessage = <<>> \/ Len(Trim(sanitizedMessage)) = 0

\* what handleChatMessage posts for an empty message
RejectNotifications == <<EmptyMessageError>>

\* handleChatMessage, message empty after sanitization: return before any call
ChatMessageReject(data) ==
    /\ currentPanel
    /\ IsEmptyMessage(sanitizeChatMessage(data))
    /\ emitted' = sendMessage(FALSE, RejectNotifications)
    /\ lastOp' = [op |-> "sendChatMessage", message |-> data, accepted |-> FALSE]
    /\ UNCHANGED <<currentPanel, livePanels, sessionManager, pending, backendCalled, sends>>

\* a sendChatMessage message arrives whose text is empty once sanitized
handleChatMessageReject ==
  \E data \in RawMessages :
    ChatMessageReject(data) /\ UNCHANGED <<outsideVars, webviewVars>>

\* userInput && history.length === 1
UseInitialRequest(userInput, history) == userInput # Null /\ Len(history) = 1

\* sendInitialRequest: POST {baseURL}/spec/init with {userInput, message}
sendInitialRequest(userInput, message) ==
  [url |-> "/spec/init", body |-> [userInput |-> userInput, message |-> message]]

\* sendMessage of the client: POST {baseURL}/spec/chat with {message, history}
sendChatRequest(message, history) ==
  [url |-> "/spec/chat", body |-> [message |-> message, history |-> history]]

\* variant: the follow-up request carries the history without the new user turn
ChooseRequest_PriorHistory(sm, sanitizedMessage) ==
  IF UseInitialRequest(getUserInput(sm), getHistory(sm))
  THEN sendInitialRequest(getUserInput(sm), sanitizedMessage)
  ELSE sendChatRequest(sanitizedMessage, SubSeq(getHistory(sm), 1, Len(getHistory(sm)) - 1))

\* the request handleChatMessage issues, from the store after the user turn
ChooseRequest(sm, sanitizedMessage) ==
  IF UseInitialRequest(getUserInput(sm), getHistory(sm))
  THEN sendInitialRequest(getUserInput(sm), sanitizedMessage)
  ELSE sendChatRequest(sanitizedMessage, getHistory(sm))

\* handleChatMessage up to its await: user turn, loading, request
ChatMessageSend(data) ==
    LET sanitizedMessage == sanitizeChatMessage(data)
        sm == addMessage(sessionManager, UserMessage(sanitizedMessage))
        request == ChooseRequest(sm, sanitizedMessage)
    IN /\ currentPanel
       /\ ~IsEmptyMessage(sanitizedMessage)
       /\ sends < MaxSends
       /\ sends' = sends + 1
       /\ sessionManager' = sm
       /\ emitted' = sendMessage(FALSE, <<Loading(TRUE)>>)
       /\ pending' = Append(pending,
                            [request |-> request, stale |-> FALSE, disposed |-> FALSE])
       /\ backendCalled' = TRUE
       /\ lastOp' = [op |-> "sendChatMessage", message |-> data, accepted |-> TRUE]
       /\ UNCHANGED <<currentPanel, livePanels>>

\* a sendChatMessage message arrives with a text
handleChatMessageSend ==
  \E data \in RawMessages :
    ChatMessageSend(data) /\ UNCHANGED <<outsideVars, webviewVars>>

\* variant: the reply is posted before the loading state is cleared
SuccessNotifications_ResponseFirst(response) ==
  <<ChatResponse(response.message, response.isPRD), Loading(FALSE)>>

\* what handleChatMessage posts after a reply
SuccessNotifications(response) ==
  <<Loading(FALSE), ChatResponse(response.message, response.isPRD)>>

\* variant: the loading state is not cleared on failure
FailureNotifications_ErrorOnly(error) == <<handleError(error)>>

\* what the catch block of handleChatMessage posts
FailureNotifications(error) == <<Loading(FALSE), handleError(error)>>

\* variant: the catch block takes the last turn back out of the store
catchSession_RollsBack(sm, error) ==
  [sm EXCEPT !.history = SubSeq(sm.history, 1, Len(sm.history) - 1)]

\* variant: an error that cannot be retried ends the session
catchSession_ResetsOnFatal(sm, error) == IF CanRetry(error) THEN sm ELSE clearSession(sm)

\* the store after the catch block of handleChatMessage: it is not touched
catchSession(sm, error) == sm

\* the error the resumed handleChatMessage ends in its catch block with, if any
CaughtError(settlement) ==
  IF settlement.settled = "rejected" THEN Obj(settlement.error)
  ELSE IF sanitizeAPIResponseThrows(settlement.value) THEN Obj(NullBodyTypeError)
  ELSE Null

\* handleChatMessage from its await on: the call of run i settles.  The
\* assistant turn goes to the store of the run's own manager (appended).
ChatMessageResume(i, settlement) ==
    LET run == pending[i]
        caught == CaughtError(settlement)
    IN /\ pending' = RemoveAt(pending, i)
       /\ lastOp' = [op |-> "response", run |-> run, index |-> i,
                     settlement |-> settlement, appended |-> caught = Null]
       /\ IF caught = Null
          THEN LET response == sanitizeAPIResponse(settlement.value)
               IN /\ sessionManager' =
                       IF run.disposed THEN sessionManager
                       ELSE addMessage(sessionManager,
                                       AssistantMessage(response.message, response.isPRD))
                  /\ emitted' = sendMessage(run.disposed, SuccessNotifications(response))
          ELSE /\ emitted' = sendMessage(run.disposed, FailureNotifications(caught.v))
               /\ sessionManager' =
                    IF run.disposed THEN sessionManager
                    ELSE catchSession(sessionManager, caught.v)
       /\ UNCHANGED <<currentPanel, livePanels, backendCalled, sends>>

\* the backend call of an outstanding run settles
handleChatMessageResume ==
  \E i \in 1 .. Len(pending), settlement \in Settlements :
    ChatMessageResume(i, settlement) /\ UNCHANGED <<outsideVars, webviewVars>>

NewSession ==
  /\ currentPanel
  /\ sessionManager' = clearSession(sessionManager)
  /\ emitted' = sendMessage(FALSE, <<SessionCleared>>)
  /\ pending' = MarkStale(pending)
  /\ backendCalled' = FALSE
  /\ lastOp' = [op |-> "newSession"]
  /\ UNCHANGED <<currentPanel, livePanels, sends>>

\* a newSession message arrives
handleNewSession == NewSession /\ UNCHANGED <<outsideVars, webviewVars>>

\* `Failed to save file: ${error.message}`
FailedToSaveFile(message) ==
  IF message = NoWorkspaceError.message
  THEN "Failed to save file: No workspace folder open. Please open a folder first."
  ELSE IF message = "i/o error" THEN "Failed to save file: i/o error"
  ELSE IF message = "permission denied" THEN "Failed to save file: permission denied"
  ELSE "Failed to save file: no space left on device"

\* the message the catch block of handleSavePRD derives from the error
SaveErrorMessage(error) ==
  IF error.code = "EACCES" \/ error.code = "PermissionDenied"
  THEN "Permission denied. Unable to write file."
  ELSE IF error.code = "ENOSPC" \/ error.code = "NoSpace"
  THEN "Disk full. Unable to save file."
  ELSE IF error.message # "" THEN FailedToSaveFile(error.message)
  ELSE "Failed to save PRD"

\* the notification the catch block of handleSavePRD sends: message only
SaveErrorNotification(error) ==
  [type |-> "error", data |-> [message |-> SaveErrorMessage(error)]]

\* variant: the check for a workspace folder is missing
NoWorkspaceFolder_NoCheck(workspaceFolder) == FALSE

\* !workspaceFolder
NoWorkspaceFolder(workspaceFolder) == workspaceFolder = Undefined

\* handleSavePRD.  The write is taken in the same step as the handler: the
\* handler touches no field of the manager after its await.  lastOp records
\* the writeFile calls made, the error caught and the toast shown.
SavePRD(filename, workspaceFolder, outcome) ==
    LET sanitizedFilename == sanitizeFilename(filename)
        caught == IF NoWorkspaceFolder(workspaceFolder) THEN Obj(NoWorkspaceError) ELSE outcome
    IN /\ currentPanel
       /\ workspaceFolder = Undefined => outcome = Null
       /\ emitted' = IF caught = Null THEN <<>>
                     ELSE sendMessage(FALSE, <<SaveErrorNotification(caught.v)>>)
       /\ lastOp' = [op |-> "savePRD",
                     workspaceFolder |-> workspaceFolder,
                     writes |-> IF NoWorkspaceFolder(workspaceFolder) THEN <<>>
                                ELSE <<[folder |-> workspaceFolder,
                                        file |-> sanitizedFilename]>>,
                     caught |-> caught,
                     toast |-> IF caught = Null THEN "information" ELSE "error"]
       /\ UNCHANGED <<currentPanel, livePanels, sessionManager, pending, backendCalled, sends>>

\* what the write of a savePRD ends in: done, or an error
WriteOutcomes == {Null} \cup {Obj(error) : error \in WriteFailures}

\* a savePRD message arrives
handleSavePRD ==
  \E filename \in RawFilenames, workspaceFolder \in WorkspaceFolders,
     outcome \in WriteOutcomes :
    SavePRD(filename, workspaceFolder, outcome) /\ UNCHANGED <<outsideVars, webviewVars>>

(***************************************************************************)
(* BackendAPIClient, one step of makeRequest at a time.  Time is counted   *)
(* in ticks; a timer that is due fires before the clock moves on.          *)
(***************************************************************************)
RequestIds == 1 .. MaxRequests

Timeouts == 1 .. MaxTimeout

Endpoints == {"https://api.infragenie.com", "http://localhost:3000"}

\* what getValidatedConfiguration can return
ValidatedConfigurations == [apiEndpoint : Endpoints, apiTimeout : Timeouts]

IdleRequest ==
  [phase |-> "idle", url |-> "", delay |-> 0, timer |-> "none", elapsed |-> 0,
   status |-> 0, cause |-> "none", outcomes |-> <<>>]

\* variant: the new settings are also applied to the requests already started
loadConfiguration_Retargets(config) ==
  /\ baseURL' = config.apiEndpoint
  /\ timeout' = config.apiTimeout
  /\ requests' = [r \in RequestIds |->
       IF requests[r].phase = "idle" THEN requests[r]
       ELSE [requests[r] EXCEPT !.url = <<config.apiEndpoint, requests[r].url[2]>>,
                                !.delay = config.apiTimeout]]

\* loadConfiguration, called by the constructor and by reloadConfiguration.
\* It assigns the two fields; the url and the timer of a started makeRequest
\* are locals of that call.
loadConfiguration(config) ==
  /\ baseURL' = config.apiEndpoint
  /\ timeout' = config.apiTimeout
  /\ requests' = requests

ClientInit ==
  /\ \E config \in ValidatedConfigurations :
       /\ baseURL = config.apiEndpoint
       /\ timeout = config.apiTimeout
  /\ requests = [r \in RequestIds |-> IdleRequest]

reloadConfiguration ==
  /\ \E config \in ValidatedConfigurations : loadConfiguration(config)
  /\ UNCHANGED <<hostVars, configVars, nameVars, webviewVars>>

\* sendInitialRequest / sendMessage build the URL and enter makeRequest, which
\* arms the timer with this.timeout and starts the fetch
StartRequest ==
  \E r \in RequestIds, path \in {"/spec/init", "/spec/chat"} :
    /\ requests[r].phase = "idle"
    /\ \A q \in 1 .. r - 1 : requests[q].phase # "idle"
    /\ requests' = [requests EXCEPT ![r] =
         [IdleRequest EXCEPT !.phase = "fetch", !.url = <<baseURL, path>>,
                             !.delay = timeout, !.timer = "armed"]]
    /\ UNCHANGED <<baseURL, timeout>>
    /\ UNCHANGED <<hostVars, configVars, nameVars, webviewVars>>

\* the run leaves makeRequest with this settlement
Settle(run, cause, settlement) ==
  [run EXCEPT !.phase = "settled", !.cause = cause,
              !.outcomes = Append(run.outcomes, settlement)]

\* controller.abort(): a fetch or body read still in progress rejects with an
\* AbortError, which the catch block receives; a finished one is not affected
Abort(run) ==
  IF run.phase \in {"fetch", "text", "json"}
  THEN Settle(run, "timer", Rejected(makeRequestCatch(AbortError)))
  ELSE run

\* the setTimeout callback
TimerFires ==
  \E r \in RequestIds :
    /\ requests[r].timer = "armed"
    /\ requests[r].elapsed >= requests[r].delay
    /\ requests' = [requests EXCEPT ![r] = Abort([requests[r] EXCEPT !.timer = "fired"])]
    /\ UNCHANGED <<baseURL, timeout>>
    /\ UNCHANGED <<hostVars, configVars, nameVars, webviewVars>>

\* what clearTimeout leaves of the timer
ClearTimeout(timer) == IF timer = "armed" THEN "cleared" ELSE timer

\* fetch resolves with the response head: clearTimeout, then the body is read
FetchResolves ==
  \E r \in RequestIds, status \in StatusCodes :
    /\ requests[r].phase = "fetch"
    /\ requests' = [requests EXCEPT ![r] =
         [requests[r] EXCEPT !.timer = ClearTimeout(requests[r].timer), !.status = status,
                             !.phase = IF ResponseOk(status) THEN "json" ELSE "text"]]
    /\ UNCHANGED <<baseURL, timeout>>
    /\ UNCHANGED <<hostVars, configVars, nameVars, webviewVars>>

\* fetch rejects: the connection failed; clearTimeout is not reached
FetchRejects ==
  \E r \in RequestIds :
    /\ requests[r].phase = "fetch"
    /\ requests' = [requests EXCEPT ![r] =
         Settle(requests[r], "network", Rejected(makeRequestCatch(FetchFailed)))]
    /\ UNCHANGED <<baseURL, timeout>>
    /\ UNCHANGED <<hostVars, configVars, nameVars, webviewVars>>

\* response.text() settles (a rejection becomes 'Unknown error'): APIError
TextSettles ==
  \E r \in RequestIds :
    /\ requests[r].phase = "text"
    /\ requests' = [requests EXCEPT ![r] =
         Settle(requests[r], "status",
                Rejected(makeRequestCatch(ThrowAPIError(requests[r].status))))]
    /\ UNCHANGED <<baseURL, timeout>>
    /\ UNCHANGED <<hostVars, configVars, nameVars, webviewVars>>

\* response.json() resolves: the data is returned
JsonResolves ==
  \E r \in RequestIds, body \in Bodies :
    /\ requests[r].phase = "json"
    /\ requests' = [requests EXCEPT ![r] = Settle(requests[r], "ok", Resolved(body))]
    /\ UNCHANGED <<baseURL, timeout>>
    /\ UNCHANGED <<hostVars, configVars, nameVars, webviewVars>>

\* response.json() rejects: the body is not JSON
JsonRejects ==
  \E r \in RequestIds :
    /\ requests[r].phase = "json"
    /\ requests' = [requests EXCEPT ![r] =
         Settle(requests[r], "syntax", Rejected(makeRequestCatch(JsonSyntaxError)))]
    /\ UNCHANGED <<baseURL, timeout>>
    /\ UNCHANGED <<hostVars, configVars, nameVars, webviewVars>>

\* the clock of a run is followed until it is past the run's timeout
Running(run) == run.phase # "idle" /\ run.elapsed <= run.delay

\* time passes for every run that has started
Tick ==
  /\ \E r \in RequestIds : Running(requests[r])
  /\ \A r \in RequestIds :
       ~(requests[r].timer = "armed" /\ requests[r].elapsed >= requests[r].delay)
  /\ requests' = [r \in RequestIds |->
       IF Running(requests[r])
       THEN [requests[r] EXCEPT !.elapsed = @ + 1] ELSE requests[r]]
  /\ UNCHANGED <<baseURL, timeout>>
  /\ UNCHANGED <<hostVars, configVars, nameVars, webviewVars>>

(***************************************************************************)
(* configValidation.  A URL text is a sequence of pieces: scheme, "://",   *)
(* rest.                                                                   *)
(***************************************************************************)
Num(n) == [t |-> "number", v |-> n]

\* values the apiEndpoint setting can hold
RawEndpoints ==
  { Undefined,
    Str(<<>>),
    Num(42),
    Str(<<"invalid">>),
    Str(<<"ftp", "://", "files.example.com">>),
    Str(<<"http", "://", "localhost:3000">>),
    Str(<<"https", "://", "custom.api.com">>) }

\* values the apiTimeout setting can hold
RawTimeouts ==
  {Undefined, Null, Str(<<"5000">>)} \cup
  {Num(n) : n \in {0, 500, 999, 1000, 3000, 4999, 5000, 45000, 300000, 300001, 350000}}

\* the defaults getValidatedConfiguration falls back to
DefaultConfiguration ==
  [apiEndpoint |-> Str(<<"https", "://", "api.infragenie.com">>), apiTimeout |-> Num(30000)]

\* new URL(urlString) succeeds and its protocol is http: or https:
isValidURL(urlString) ==
  /\ Len(urlString) >= 2
  /\ urlString[2] = "://"
  /\ urlString[1] \in {"http", "https"}

\* apiEndpoint.startsWith('http://')
StartsWithHttp(urlString) ==
  Len(urlString) >= 2 /\ urlString[1] = "http" /\ urlString[2] = "://"

\* the endpoint part of validateConfiguration: errors and warnings pushed
ValidateEndpoint(apiEndpoint) ==
  IF apiEndpoint = Undefined \/ apiEndpoint = Null \/ apiEndpoint = Str(<<>>)
     \/ apiEndpoint = Num(0)
  THEN [errors |-> <<"API endpoint is required">>, warnings |-> <<>>]
  ELSE IF apiEndpoint.t # "string"
  THEN [errors |-> <<"API endpoint must be a string">>, warnings |-> <<>>]
  ELSE IF ~isValidURL(apiEndpoint.v)
  THEN [errors |-> <<"API endpoint must be a valid URL (e.g., https://api.example.com)">>,
        warnings |-> <<>>]
  ELSE IF StartsWithHttp(apiEndpoint.v)
  THEN [errors |-> <<>>, warnings |-> <<"API endpoint should use HTTPS for security">>]
  ELSE [errors |-> <<>>, warnings |-> <<>>]

\* variant: the lower limit is checked with <=
ValidateTimeout_InclusiveLimit(apiTimeout) ==
  IF apiTimeout = Undefined \/ apiTimeout = Null
  THEN [errors |-> <<"API timeout is required">>, warnings |-> <<>>]
  ELSE IF apiTimeout.t # "number"
  THEN [errors |-> <<"API timeout must be a number">>, warnings |-> <<>>]
  ELSE IF apiTimeout.v <= 1000
  THEN [errors |-> <<"API timeout must be at least 1000ms (1 second)">>, warnings |-> <<>>]
  ELSE IF apiTimeout.v > 300000
  THEN [errors |-> <<>>,
        warnings |-> <<"API timeout is very high (>5 minutes). This may cause poor user experience.">>]
  ELSE IF apiTimeout.v < 5000
  THEN [errors |-> <<>>,
        warnings |-> <<"API timeout is very low (<5 seconds). Requests may timeout frequently.">>]
  ELSE [errors |-> <<>>, warnings |-> <<>>]

\* the timeout part of validateConfiguration
ValidateTimeout(apiTimeout) ==
  IF apiTimeout = Undefined \/ apiTimeout = Null
  THEN [errors |-> <<"API timeout is required">>, warnings |-> <<>>]
  ELSE IF apiTimeout.t # "number"
  THEN [errors |-> <<"API timeout must be a number">>, warnings |-> <<>>]
  ELSE IF apiTimeout.v < 1000
  THEN [errors |-> <<"API timeout must be at least 1000ms (1 second)">>, warnings |-> <<>>]
  ELSE IF apiTimeout.v > 300000
  THEN [errors |-> <<>>,
        warnings |-> <<"API timeout is very high (>5 minutes). This may cause poor user experience.">>]
  ELSE IF apiTimeout.v < 5000
  THEN [errors |-> <<>>,
        warnings |-> <<"API timeout is very low (<5 seconds). Requests may timeout frequently.">>]
  ELSE [errors |-> <<>>, warnings |-> <<>>]

validateConfiguration(config) ==
  LET endpoint == ValidateEndpoint(config.apiEndpoint)
      time == ValidateTimeout(config.apiTimeout)
      errors == endpoint.errors \o time.errors
  IN [isValid |-> Len(errors) = 0,
      errors |-> errors,
      warnings |-> endpoint.warnings \o time.warnings]

\* config.get(key, defaultValue)
ConfigGet(value, defaultValue) == IF value = Undefined THEN defaultValue ELSE value

\* variant: each field falls back to its default on its own
getValidatedConfiguration_PerField(config) ==
  [apiEndpoint |-> IF ValidateEndpoint(config.apiEndpoint).errors = <<>>
                   THEN config.apiEndpoint ELSE DefaultConfiguration.apiEndpoint,
   apiTimeout |-> IF ValidateTimeout(config.apiTimeout).errors = <<>>
                  THEN config.apiTimeout ELSE DefaultConfiguration.apiTimeout]

getValidatedConfiguration(config) ==
  LET validation == validateConfiguration(config)
      apiEndpoint == ConfigGet(config.apiEndpoint, DefaultConfiguration.apiEndpoint)
      apiTimeout == ConfigGet(config.apiTimeout, DefaultConfiguration.apiTimeout)
  IN IF ~validation.isValid
     THEN [apiEndpoint |-> DefaultConfiguration.apiEndpoint,
           apiTimeout |-> DefaultConfiguration.apiTimeout]
     ELSE [apiEndpoint |-> apiEndpoint, apiTimeout |-> apiTimeout]

\* the settings as installed, no call made yet
ConfigAtRest ==
  /\ configuration = DefaultConfiguration
  /\ loaded = [called |-> FALSE]

\* config.update('apiEndpoint', value)
UpdateEndpoint ==
  \E value \in RawEndpoints :
    /\ configuration' = [configuration EXCEPT !.apiEndpoint = value]
    /\ UNCHANGED loaded
    /\ UNCHANGED <<hostVars, clientVars, nameVars, webviewVars>>

\* config.update('apiTimeout', value)
UpdateTimeout ==
  \E value \in RawTimeouts :
    /\ configuration' = [configuration EXCEPT !.apiTimeout = value]
    /\ UNCHANGED loaded
    /\ UNCHANGED <<hostVars, clientVars, nameVars, webviewVars>>

\* handleConfigurationChanged -> reloadConfiguration -> loadConfiguration:
\* the settings are validated and resolved
handleConfigurationChanged ==
  /\ loaded' = [called |-> TRUE,
                settings |-> configuration,
                validation |-> validateConfiguration(configuration),
                config |-> getValidatedConfiguration(configuration)]
  /\ UNCHANGED configuration
  /\ UNCHANGED <<hostVars, clientVars, nameVars, webviewVars>>

(***************************************************************************)
(* The webview: App, ChatInterface.handleSend and ErrorNotification, and   *)
(* the host handlers fed from the channel (used by WebviewSpec).           *)
(***************************************************************************)
\* the useState initial values of App
AppInitial ==
  [currentView |-> "mainMenu", messages |-> <<>>, isLoading |-> FALSE,
   error |-> Null, canRetry |-> FALSE, lastMessage |-> Null]

\* addMessage of App: setMessages(prev => [...prev, message])
appAddMessage(a, message) == [a EXCEPT !.messages = Append(a.messages, message)]

\* handleSetError(errorMessage, retry)
handleSetError(a, errorMessage, retry) ==
  [a EXCEPT !.error = errorMessage, !.canRetry = retry]

\* message.data.canRetry || false
CanRetryOrFalse(data) == IF "canRetry" \in DOMAIN data THEN data.canRetry ELSE FALSE

\* handleMessage of App: the state after an ExtensionMessage
handleMessage(a, message) ==
  CASE message.type = "chatResponse" ->
         handleSetError(
           [appAddMessage(a, [role |-> "assistant", content |-> message.data.message,
                              isPRD |-> message.data.isPRD])
              EXCEPT !.isLoading = FALSE],
           Null, FALSE)
    [] message.type = "error" ->
         [handleSetError(a, Str(message.data.message), CanRetryOrFalse(message.data))
            EXCEPT !.isLoading = FALSE]
    [] message.type = "loading" ->
         [a EXCEPT !.isLoading = message.data.isLoading]
    [] message.type = "sessionCleared" ->
         [a EXCEPT !.messages = <<>>, !.currentView = "mainMenu", !.error = Null,
                   !.canRetry = FALSE, !.isLoading = FALSE, !.lastMessage = Null]

\* {error && <ErrorNotification .../>}
ErrorShown(a) == a.error # Null /\ a.error.v # ""

\* what the user types into the chat box
TypedMessages == {Str(<<"Hello">>), Str(<<"<script>alert(1)</script>">>)}

\* what the form submits
FormIntakes == {IntakeA}

\* how the backend calls end here: a reply, a final document, or a timeout
WebviewSettlements ==
  {Resolved(body) : body \in {b \in Bodies : b.t = "object"}} \cup
  {Rejected(makeRequestCatch(AbortError))}

\* onSavePRD={msg.isPRD ? onSavePRD : undefined}
ShowsSave(turn) == "isPRD" \in DOMAIN turn /\ turn.isPRD = TRUE

\* `prd-${Date.now()}.md`
SaveFilename == Str(<<"prd-1", ".", "md">>)

\* vscode.postMessage(message)
postMessage(message) ==
  /\ Len(toHost) + Len(toWebview) < MaxInTransit
  /\ toHost' = Append(toHost, message)

\* the window 'message' event: handleMessage runs on the oldest message
ReceiveMessage ==
  /\ toWebview # <<>>
  /\ app' = handleMessage(app, Head(toWebview))
  /\ toWebview' = Tail(toWebview)
  /\ UNCHANGED <<toHost, hostVars, outsideVars>>

\* MainMenu onSelectFeature('spec')
SelectFeature ==
  /\ currentPanel
  /\ app.currentView = "mainMenu"
  /\ app' = [app EXCEPT !.currentView = "userInputForm"]
  /\ UNCHANGED <<toHost, toWebview, hostVars, outsideVars>>

\* UserInputForm onSubmit
SubmitForm ==
  \E data \in FormIntakes :
    /\ currentPanel
    /\ app.currentView = "userInputForm"
    /\ postMessage([type |-> "submitUserInput", data |-> data])
    /\ app' = [app EXCEPT !.currentView = "chatInterface"]
    /\ UNCHANGED <<toWebview, hostVars, outsideVars>>

\* ChatInterface.handleSend and onSendMessage of App
SendClick ==
  \E inputValue \in TypedMessages :
    /\ currentPanel
    /\ app.currentView = "chatInterface"
    /\ Trim(inputValue.v) # <<>>
    /\ ~app.isLoading
    /\ Len(app.messages) < MaxShown
    /\ postMessage([type |-> "sendChatMessage", data |-> [message |-> inputValue]])
    /\ app' = [appAddMessage(app, [role |-> "user", content |-> inputValue.v])
                 EXCEPT !.lastMessage = inputValue, !.isLoading = TRUE]
    /\ UNCHANGED <<toWebview, hostVars, outsideVars>>

\* the Retry button of ErrorNotification, with something to send again
RetryClick ==
  /\ currentPanel
  /\ ErrorShown(app)
  /\ app.canRetry
  /\ app.lastMessage # Null /\ app.currentView = "chatInterface"
  /\ postMessage([type |-> "sendChatMessage", data |-> [message |-> app.lastMessage]])
  /\ app' = [handleSetError(app, Null, FALSE) EXCEPT !.isLoading = TRUE]
  /\ UNCHANGED <<toWebview, hostVars, outsideVars>>

\* the Retry button with nothing to send again, and the Dismiss button
DismissClick ==
  /\ currentPanel
  /\ ErrorShown(app)
  /\ app' = handleSetError(app, Null, FALSE)
  /\ UNCHANGED <<toHost, toWebview, hostVars, outsideVars>>

\* the New Session button of ChatInterface
NewSessionClick ==
  /\ currentPanel
  /\ app.currentView = "chatInterface"
  /\ postMessage([type |-> "newSession"])
  /\ UNCHANGED <<app, toWebview, hostVars, outsideVars>>

\* the save button of a MessageBubble that shows a final document
SavePRDClick ==
  \E k \in 1 .. Len(app.messages) :
    /\ currentPanel
    /\ app.currentView = "chatInterface"
    /\ ShowsSave(app.messages[k])
    /\ postMessage([type |-> "savePRD",
                    data |-> [content |-> app.messages[k].content,
                              filename |-> SaveFilename]])
    /\ UNCHANGED <<app, toWebview, hostVars, outsideVars>>

\* the host handled the oldest message and posted emitted' to the webview
Handled ==
  /\ toHost' = Tail(toHost)
  /\ toWebview' = toWebview \o emitted'
  /\ UNCHANGED <<app, outsideVars>>

\* handleMessage of the host, case 'submitUserInput'
HostSubmitUserInput ==
  /\ toHost # <<>>
  /\ Head(toHost).type = "submitUserInput"
  /\ UserInputSubmission(Head(toHost).data)
  /\ Handled

\* case 'sendChatMessage', the message is empty once sanitized
HostRejectChatMessage ==
  /\ toHost # <<>>
  /\ Head(toHost).type = "sendChatMessage"
  /\ ChatMessageReject(Head(toHost).data.message)
  /\ Handled

\* case 'sendChatMessage', up to the await
HostSendChatMessage ==
  /\ toHost # <<>>
  /\ Head(toHost).type = "sendChatMessage"
  /\ ChatMessageSend(Head(toHost).data.message)
  /\ Handled

\* case 'newSession'
HostNewSession ==
  /\ toHost # <<>>
  /\ Head(toHost).type = "newSession"
  /\ NewSession
  /\ Handled

\* case 'savePRD'
HostSavePRD ==
  \E workspaceFolder \in WorkspaceFolders, outcome \in WriteOutcomes :
    /\ toHost # <<>>
    /\ Head(toHost).type = "savePRD"
    /\ SavePRD(Head(toHost).data.filename, workspaceFolder, outcome)
    /\ Handled

\* a backend call settles and handleChatMessage goes on
HostResponse ==
  \E i \in 1 .. Len(pending), settlement \in WebviewSettlements :
    /\ ChatMessageResume(i, settlement)
    /\ toWebview' = toWebview \o emitted'
    /\ UNCHANGED <<app, toHost, outsideVars>>

(***************************************************************************)
(* sanitizeFilename on its own: any file name of up to MaxNameLen pieces.  *)
(***************************************************************************)
\* the pieces of the file names tried: separators, dot, blank, words
NamePieces == {"/", ":", ".", " ", "md", "etc"}

\* data.filename: any string of these pieces, or nothing
NameInputs ==
  {Undefined} \cup
  {Str(v) : v \in UNION {[1 .. n -> NamePieces] : n \in 0 .. MaxNameLen}}

NameInit ==
  /\ requestedName \in NameInputs
  /\ savedAs = [called |-> FALSE]

\* const sanitizedFilename = sanitizeFilename(filename)
SanitizeName ==
  /\ ~savedAs.called
  /\ savedAs' = [called |-> TRUE, filename |-> requestedName,
                 result |-> sanitizeFilename(requestedName)]
  /\ UNCHANGED requestedName
  /\ UNCHANGED <<hostVars, clientVars, configVars, webviewVars>>

\* no file name asked for
NameAtRest ==
  /\ requestedName = Undefined
  /\ savedAs = [called |-> FALSE]

\* no webview content loaded, nothing posted
WebviewAtRest ==
  /\ app = AppInitial
  /\ toHost = <<>>
  /\ toWebview = <<>>

(***************************************************************************)
(* Specifications.                                                         *)
(***************************************************************************)
\* the client of a host is constructed and left alone
ClientAtRest ==
  /\ baseURL = "https://api.infragenie.com"
  /\ timeout = MaxTimeout
  /\ requests = [r \in RequestIds |-> IdleRequest]

Init == HostInit /\ ClientAtRest /\ ConfigAtRest /\ NameAtRest /\ WebviewAtRest

Next ==
  \/ RevealPanel
  \/ CreatePanel
  \/ dispose
  \/ handleUserInputSubmission
  \/ handleChatMessageReject
  \/ handleChatMessageSend
  \/ handleChatMessageResume
  \/ handleNewSession
  \/ handleSavePRD

Spec == Init /\ [][Next]_vars

ClientSpecInit ==
  HostInit /\ ClientInit /\ ConfigAtRest /\ NameAtRest /\ WebviewAtRest

ClientNext ==
  \/ reloadConfiguration
  \/ StartRequest
  \/ TimerFires
  \/ FetchResolves
  \/ FetchRejects
  \/ TextSettles
  \/ JsonResolves
  \/ JsonRejects
  \/ Tick

ClientSpec == ClientSpecInit /\ [][ClientNext]_vars

ConfigSpecInit ==
  HostInit /\ ClientAtRest /\ ConfigAtRest /\ NameAtRest /\ WebviewAtRest

ConfigNext ==
  \/ UpdateEndpoint
  \/ UpdateTimeout
  \/ handleConfigurationChanged

ConfigSpec == ConfigSpecInit /\ [][ConfigNext]_vars

\* sanitizeFilename applied to every file name within the bound
NameSpecInit ==
  HostInit /\ ClientAtRest /\ ConfigAtRest /\ NameInit /\ WebviewAtRest

NameNext == SanitizeName

NameSpec == NameSpecInit /\ [][NameNext]_vars

\* the panel, its webview and the messages between them
WebviewSpecInit ==
  HostInit /\ ClientAtRest /\ ConfigAtRest /\ NameAtRest /\ WebviewAtRest

WebviewNext ==
  \/ CreatePanel
  \/ SelectFeature
  \/ SubmitForm
  \/ SendClick
  \/ RetryClick
  \/ DismissClick
  \/ NewSessionClick
  \/ SavePRDClick
  \/ ReceiveMessage
  \/ HostSubmitUserInput
  \/ HostRejectChatMessage
  \/ HostSendChatMessage
  \/ HostNewSession
  \/ HostSavePRD
  \/ HostResponse

WebviewSpec == WebviewSpecInit /\ [][WebviewNext]_vars

(***************************************************************************)
(* Properties.                                                             *)
(***************************************************************************)
IsAcceptedSend(op) == op.op = "sendChatMessage" /\ op.accepted

\* the call of the run settled with a body that carries a reply
IsReply(op) ==
  op.op = "response" /\ op.settlement.settled = "resolved" /\ op.settlement.value.t = "object"

\* the call of the run failed, or its result made the handler throw
IsFailure(op) == op.op = "response" /\ ~IsReply(op)

\* C1: in a session with an intake, a send with non-empty sanitized text
\* appends the user turn and posts loading(true); when its call then succeeds
\* with no other step in between, the run has posted exactly loading(true),
\* loading(false), chatResponse(reply, flag) and the history has grown by the
\* user turn followed by the assistant turn.
C1_SendSucceeds ==
  [][ /\ IsAcceptedSend(lastOp') =>
           /\ emitted' = <<Loading(TRUE)>>
           /\ sessionManager'.history =
                Append(sessionManager.history,
                       UserMessage(sanitizeChatMessage(lastOp'.message)))
      /\ ( /\ IsAcceptedSend(lastOp)
           /\ IsReply(lastOp')
           /\ lastOp'.index = Len(pending)
           /\ sessionManager.userInput # Null ) =>
           LET body == lastOp'.settlement.value.v
               reply == PurifyAllowList(body.message)
               flag == body.isPRD = Bool(TRUE)
           IN /\ emitted \o emitted' =
                   <<Loading(TRUE), Loading(FALSE), ChatResponse(reply, flag)>>
              /\ sessionManager'.history =
                   Append(sessionManager.history, AssistantMessage(reply, flag))
              /\ sessionManager'.userInput = sessionManager.userInput
    ]_vars

\* a first exchange has just completed: user turn, assistant turn, and the
\* reply notifications posted
C1_Witness ==
  /\ IsReply(lastOp)
  /\ pending = <<>>
  /\ sessionManager.userInput # Null
  /\ Len(sessionManager.history) = 2
  /\ sessionManager.history[1].role = "user"
  /\ sessionManager.history[2].role = "assistant"
  /\ sessionManager.history[2].isPRD
  /\ Len(emitted) = 2
  /\ emitted[2].type = "chatResponse"

\* C2: in a session (intake set), the request of a send goes to the init
\* endpoint with the stored intake exactly when no backend call was issued in
\* the session before, and to the chat endpoint otherwise.
C2_FirstCallInitial ==
  [][ (IsAcceptedSend(lastOp') /\ sessionManager.userInput # Null) =>
        LET request == pending'[Len(pending')].request
        IN /\ (request.url = "/spec/init") <=> ~backendCalled
           /\ (request.url = "/spec/chat") <=> backendCalled
           /\ request.url = "/spec/init" =>
                request.body.userInput = sessionManager.userInput
    ]_vars

\* C3: the result of a request whose session was reset or restarted while it
\* was outstanding leaves every session store as it is.
C3_StaleResultDiscarded ==
  [][ (lastOp'.op = "response" /\ lastOp'.run.stale) =>
        /\ ~lastOp'.appended
        /\ sessionManager' = sessionManager
    ]_vars

\* C4: a send whose text is empty after sanitization posts exactly one error
\* notification and nothing else, issues no request and leaves every session
\* store unchanged.
C4_EmptyMessageRejected ==
  [][ (lastOp'.op = "sendChatMessage" /\ sanitizeChatMessage(lastOp'.message) = <<>>) =>
        /\ Len(emitted') = 1
        /\ emitted'[1].type = "error"
        /\ pending' = pending
        /\ sessionManager' = sessionManager
    ]_vars

\* an empty message was rejected in a session that has turns
C4_Witness ==
  /\ lastOp.op = "sendChatMessage"
  /\ sanitizeChatMessage(lastOp.message) = <<>>
  /\ lastOp.message.t = "string"
  /\ emitted = <<EmptyMessageError>>
  /\ Len(sessionManager.history) >= 2

\* C5: the error notification posted for a failed send has canRetry, and it is
\* true exactly when the client failed with a TimeoutError or a NetworkError.
C5_RetryFlag ==
  IsFailure(lastOp) =>
    \A i \in 1 .. Len(emitted) :
      emitted[i].type = "error" =>
        /\ "canRetry" \in DOMAIN emitted[i].data
        /\ emitted[i].data.canRetry <=>
             /\ lastOp.settlement.settled = "rejected"
             /\ lastOp.settlement.error.cls \in {"TimeoutError", "NetworkError"}

\* a send failed with a timeout and its notification offers the retry
C5_Witness ==
  /\ IsFailure(lastOp)
  /\ lastOp.settlement.settled = "rejected"
  /\ lastOp.settlement.error.cls = "TimeoutError"
  /\ Len(emitted) = 2
  /\ emitted[2].type = "error"
  /\ emitted[2].data.canRetry

C7_BoundedByTimeout ==
  \A r \in RequestIds :
    requests[r].phase \in {"fetch", "text", "json"} => requests[r].elapsed <= requests[r].delay

\* C8: a newSession leaves the panel's store with a null intake and an empty
\* history, posts exactly one sessionCleared and issues no request.
C8_NewSessionClears ==
  [][ lastOp'.op = "newSession" =>
        /\ sessionManager'.userInput = Null
        /\ sessionManager'.history = <<>>
        /\ emitted' = <<SessionCleared>>
        /\ Len(pending') = Len(pending)
        /\ \A i \in 1 .. Len(pending) : pending'[i].request = pending[i].request
    ]_vars

\* a newSession was processed in an active session with a request outstanding
C8_Witness ==
  /\ lastOp.op = "newSession"
  /\ pending # <<>>
  /\ pending[1].request.url = "/spec/init"
  /\ sessionManager = NewSessionManager
  /\ emitted = <<SessionCleared>>

\* C9: after a submitUserInput the store holds exactly the intake passed to
\* initializeSession and an empty history.
C9_StartDiscardsPrevious ==
  [][ lastOp'.op = "submitUserInput" =>
        /\ sessionManager'.userInput = Obj(sanitizeUserInput(lastOp'.data))
        /\ sessionManager'.history = <<>>
    ]_vars

\* intake B was submitted over a session of intake A that had a turn, whose
\* request is still outstanding
C9_Witness ==
  /\ lastOp.op = "submitUserInput"
  /\ lastOp.data = IntakeB
  /\ pending # <<>>
  /\ pending[1].stale
  /\ pending[1].request.url = "/spec/init"
  /\ pending[1].request.body.userInput = Obj(sanitizeUserInput(IntakeA))
  /\ sessionManager.userInput.v.detailedDescription = <<"Second", " ", "session">>
  /\ sessionManager.history = <<>>

\* C10: the history of a store is empty whenever its intake is null.
C10_NoHistoryWithoutIntake ==
  sessionManager.userInput = Null => sessionManager.history = <<>>

\* C11: the first entry of a non-empty history is a user turn.
C11_FirstTurnIsUser ==
  sessionManager.history # <<>> => sessionManager.history[1].role = "user"

\* C12: when the call of a send fails (the panel still there), the run posts
\* loading(false) and then one error notification, and no chatResponse.
C12_SendFails ==
  [][ (IsFailure(lastOp') /\ ~lastOp'.run.disposed) =>
        /\ Len(emitted') = 2
        /\ emitted'[1] = Loading(FALSE)
        /\ emitted'[2].type = "error"
        /\ \A i \in 1 .. Len(emitted') : emitted'[i].type # "chatResponse"
    ]_vars

\* a send was refused by the backend with a status: loading(false), then the
\* error that cannot be retried
C12_Witness ==
  /\ IsFailure(lastOp)
  /\ ~lastOp.run.disposed
  /\ lastOp.settlement.settled = "rejected"
  /\ lastOp.settlement.error.cls = "APIError"
  /\ emitted = <<Loading(FALSE), handleError(ThrowAPIError(500))>>

\* C13: every error notification posted carries a canRetry flag.
C13_RetryFlagPresent ==
  \A i \in 1 .. Len(emitted) :
    emitted[i].type = "error" => "canRetry" \in DOMAIN emitted[i].data

IsFailedSave(op) == op.op = "savePRD" /\ op.caught # Null

\* C14: a failed send or a failed save leaves the panel and the store (intake
\* and turns) as they were; in the state it leaves, with a panel, a send is
\* taken, and the send that follows is processed like any other: user turn
\* appended, loading(true) posted, one request issued.
C14_UsableAfterFailure ==
  /\ []( ((IsFailure(lastOp) \/ IsFailedSave(lastOp)) /\ currentPanel /\ sends < MaxSends)
           => ENABLED handleChatMessageSend )
  /\ [][ /\ (IsFailure(lastOp') \/ IsFailedSave(lastOp')) =>
              /\ sessionManager' = sessionManager
              /\ currentPanel' = currentPanel
         /\ ((IsFailure(lastOp) \/ IsFailedSave(lastOp)) /\ IsAcceptedSend(lastOp')) =>
              /\ sessionManager' =
                   addMessage(sessionManager, UserMessage(sanitizeChatMessage(lastOp'.message)))
              /\ emitted' = <<Loading(TRUE)>>
              /\ Len(pending') = Len(pending) + 1
       ]_vars

\* a send was accepted right after a failure that cannot be retried, in a
\* session that kept its intake and its first turn
C14_Witness ==
  /\ IsAcceptedSend(lastOp)
  /\ sessionManager.userInput # Null
  /\ Len(sessionManager.history) = 2
  /\ sessionManager.history[1].role = "user"
  /\ sessionManager.history[2].role = "user"
  /\ Len(pending) = 1
  /\ pending[1].request.url = "/spec/chat"
  /\ ~pending[1].stale

\* C15: getValidatedConfiguration returns the defaults for both fields when
\* validation reports an error, and the settings as supplied when it reports
\* none.
C15_DefaultsOnAnyError ==
  loaded.called =>
    /\ loaded.validation.errors # <<>> => loaded.config = DefaultConfiguration
    /\ loaded.validation.errors = <<>> =>
         loaded.config = [apiEndpoint |-> loaded.settings.apiEndpoint,
                          apiTimeout |-> loaded.settings.apiTimeout]

\* a valid endpoint supplied with a timeout that is too low: both defaults
C15_Witness ==
  /\ loaded.called
  /\ loaded.settings.apiEndpoint = Str(<<"https", "://", "custom.api.com">>)
  /\ loaded.settings.apiTimeout = Num(500)
  /\ loaded.validation.errors # <<>>
  /\ loaded.config = DefaultConfiguration

\* C16: with a valid https endpoint and a numeric timeout t, the validation
\* is invalid with the 'at least 1000ms' error iff t < 1000, valid with the
\* 'very low' warning iff 1000 <= t < 5000, valid with the 'very high'
\* warning iff t > 300000, and valid without warning iff 5000 <= t <= 300000.
C16_TimeoutLimits ==
  ( /\ loaded.called
    /\ loaded.settings.apiEndpoint = Str(<<"https", "://", "custom.api.com">>)
    /\ loaded.settings.apiTimeout.t = "number" ) =>
    LET t == loaded.settings.apiTimeout.v
        r == loaded.validation
    IN /\ (t < 1000) <=>
            ( /\ ~r.isValid
              /\ r.errors = <<"API timeout must be at least 1000ms (1 second)">> )
       /\ (1000 <= t /\ t < 5000) <=>
            ( /\ r.isValid
              /\ r.warnings =
                   <<"API timeout is very low (<5 seconds). Requests may timeout frequently.">> )
       /\ (t > 300000) <=>
            ( /\ r.isValid
              /\ r.warnings =
                   <<"API timeout is very high (>5 minutes). This may cause poor user experience.">> )
       /\ (5000 <= t /\ t <= 300000) <=> (r.isValid /\ r.warnings = <<>>)

\* the settings were validated with a timeout of exactly 1000
C16_Witness ==
  /\ loaded.called
  /\ loaded.settings.apiEndpoint = Str(<<"https", "://", "custom.api.com">>)
  /\ loaded.settings.apiTimeout = Num(1000)
  /\ loaded.validation.isValid
  /\ Len(loaded.validation.warnings) = 1

\* C17: a savePRD without a workspace folder calls no writeFile, ends in the
\* catch block of the handler, posts exactly one error notification and
\* leaves the store and the outstanding requests as they were.
C17_SaveWithoutWorkspace ==
  [][ (lastOp'.op = "savePRD" /\ lastOp'.workspaceFolder = Undefined) =>
        /\ lastOp'.writes = <<>>
        /\ lastOp'.caught = Obj(NoWorkspaceError)
        /\ Len(emitted') = 1
        /\ emitted'[1].type = "error"
        /\ sessionManager' = sessionManager
        /\ pending' = pending
        /\ currentPanel' = currentPanel
    ]_vars

\* a save without a workspace folder was reported, in a session with turns
C17_Witness ==
  /\ lastOp.op = "savePRD"
  /\ lastOp.workspaceFolder = Undefined
  /\ lastOp.writes = <<>>
  /\ Len(emitted) = 1
  /\ emitted[1].data.message =
       "Failed to save file: No workspace folder open. Please open a folder first."
  /\ sessionManager.userInput # Null
  /\ Len(sessionManager.history) = 2

\* C18: a request to the chat endpoint carries the history of the store at
\* the moment of sending, the new user turn last; the second message of a
\* session whose first exchange succeeded goes there with both earlier turns.
C18_ChatCarriesHistory ==
  [][ IsAcceptedSend(lastOp') =>
        LET request == pending'[Len(pending')].request
            turn == UserMessage(sanitizeChatMessage(lastOp'.message))
        IN /\ request.url = "/spec/chat" =>
                /\ request.body.history = sessionManager'.history
                /\ request.body.history = Append(sessionManager.history, turn)
           /\ ( /\ sessionManager.userInput # Null
                /\ Len(sessionManager.history) = 2
                /\ sessionManager.history[1].role = "user"
                /\ sessionManager.history[2].role = "assistant" ) =>
                /\ request.url = "/spec/chat"
                /\ request.body.history = sessionManager.history \o <<turn>>
    ]_vars

\* the second message of a session was sent after a first exchange
C18_Witness ==
  /\ IsAcceptedSend(lastOp)
  /\ sessionManager.userInput # Null
  /\ Len(pending) = 1
  /\ pending[1].request.url = "/spec/chat"
  /\ Len(pending[1].request.body.history) = 3
  /\ pending[1].request.body.history[1].role = "user"
  /\ pending[1].request.body.history[2].role = "assistant"
  /\ pending[1].request.body.history[3].role = "user"
  /\ pending[1].request.body.history = sessionManager.history

\* C19: the intake of an initialized session has no empty field and at least
\* one region.
C19_IntakeComplete ==
  sessionManager.userInput # Null =>
    LET intake == sessionManager.userInput.v
    IN /\ intake.appType # <<>>
       /\ intake.expectedUsers # <<>>
       /\ intake.trafficPattern # <<>>
       /\ intake.processingType # ""
       /\ intake.dataSensitivity # <<>>
       /\ Len(intake.regions) >= 1
       /\ \A i \in 1 .. Len(intake.regions) : intake.regions[i] # <<>>
       /\ intake.availabilityRequirement # <<>>
       /\ intake.detailedDescription # <<>>

\* C20: a send accepted while the intake is null, its user turn the only
\* turn, goes through the initial-request path.
C20_SendBeforeIntake ==
  [][ ( /\ IsAcceptedSend(lastOp')
        /\ sessionManager.userInput = Null
        /\ Len(sessionManager'.history) = 1 ) =>
        pending'[Len(pending')].request.url = "/spec/init"
    ]_vars

(***************************************************************************)
(* C21: for every input string sanitizeFilename returns a non-empty name   *)
(* with none of / \ : * ? " < > |, not beginning with a dot or a blank,    *)
(* ending in .md; an input with nothing but removed characters, dots and   *)
(* blanks yields untitled.md.                                              *)
(***************************************************************************)
C21_SafeFilename ==
  (savedAs.called /\ savedAs.filename.t = "string") =>
    LET given == savedAs.filename.v
        result == savedAs.result
    IN /\ result # <<>>
       /\ \A i \in 1 .. Len(result) : result[i] \notin ForbiddenChars
       /\ result[1] \notin {".", " "}
       /\ EndsWithMd(result)
       /\ (\A i \in 1 .. Len(given) : given[i] \in ForbiddenChars \cup {".", " "})
            => result = <<"untitled", ".", "md">>

\* "./etc" was sanitized to etc.md
C21_Witness ==
  /\ savedAs.called
  /\ savedAs.filename = Str(<<".", "/", "etc">>)
  /\ savedAs.result = <<"etc", ".", "md">>

(***************************************************************************)
(* C22: at most one panel, and so one session store, is live at any time:  *)
(* createOrShow with a panel reveals it and creates nothing; createOrShow  *)
(* without one (at the start, after dispose) creates one panel whose       *)
(* session has intake null and an empty history.                           *)
(***************************************************************************)
C22_SinglePanel ==
  /\ [](livePanels <= 1)
  /\ [][lastOp'.op = "createOrShow" =>
          IF currentPanel
          THEN /\ ~lastOp'.created
               /\ livePanels' = livePanels
               /\ sessionManager' = sessionManager
          ELSE /\ lastOp'.created
               /\ livePanels' = 1
               /\ sessionManager'.userInput = Null
               /\ sessionManager'.history = <<>>]_vars

\* a panel created after an earlier one, which had taken a send, was disposed
C22_Witness ==
  /\ lastOp.op = "createOrShow"
  /\ lastOp.created
  /\ sends > 0
  /\ livePanels = 1
  /\ sessionManager = NewSessionManager

\* the turn carries isPRD: true
IsFinalDocument(turn) == "isPRD" \in DOMAIN turn /\ turn.isPRD = TRUE

(***************************************************************************)
(* C23: in every reachable state every turn of the history whose           *)
(* final-document flag is true is an assistant turn; no user turn is       *)
(* stored with the flag set.                                               *)
(***************************************************************************)
C23_FlagOnAssistantOnly ==
  \A i \in 1 .. Len(sessionManager.history) :
    LET turn == sessionManager.history[i]
    IN /\ IsFinalDocument(turn) => turn.role = "assistant"
       /\ turn.role = "user" => ~IsFinalDocument(turn)

\* a history with a user turn and a flagged assistant turn
C23_Witness ==
  /\ \E i \in 1 .. Len(sessionManager.history) :
       sessionManager.history[i].role = "user"
  /\ \E i \in 1 .. Len(sessionManager.history) :
       /\ sessionManager.history[i].role = "assistant"
       /\ IsFinalDocument(sessionManager.history[i])

\* a send of the current panel still awaits its response
HasOutstanding(runs) == \E j \in 1 .. Len(runs) : ~runs[j].disposed

(***************************************************************************)
(* C24: a send arriving while an earlier one is outstanding is neither     *)
(* rejected nor queued: it is taken, its user turn is appended at once and *)
(* its request is issued next to the outstanding ones.  Each reply to a    *)
(* run that saw no reset appends its assistant turn at the end of the      *)
(* history, whichever run it is, so no turn is lost and the assistant      *)
(* turns stand in the order the responses completed.                       *)
(***************************************************************************)
C24_OverlappingSends ==
  /\ []( (HasOutstanding(pending) /\ currentPanel /\ sends < MaxSends)
           => ENABLED handleChatMessageSend )
  /\ [][ /\ ( /\ lastOp'.op = "sendChatMessage"
               /\ HasOutstanding(pending)
               /\ ~IsEmptyMessage(sanitizeChatMessage(lastOp'.message)) ) =>
              LET text == sanitizeChatMessage(lastOp'.message)
              IN /\ lastOp'.accepted
                 /\ sessionManager'.history =
                      Append(sessionManager.history, [role |-> "user", content |-> text])
                 /\ Len(pending') = Len(pending) + 1
                 /\ SubSeq(pending', 1, Len(pending)) = pending
                 /\ pending'[Len(pending')].request.body.message = text
                 /\ emitted' = <<Loading(TRUE)>>
         /\ ( /\ IsReply(lastOp')
               /\ ~lastOp'.run.stale
               /\ ~lastOp'.run.disposed ) =>
              LET reply == sanitizeAPIResponse(lastOp'.settlement.value)
              IN /\ Len(sessionManager'.history) = Len(sessionManager.history) + 1
                 /\ SubSeq(sessionManager'.history, 1, Len(sessionManager.history)) =
                      sessionManager.history
                 /\ sessionManager'.history[Len(sessionManager'.history)] =
                      [role |-> "assistant", content |-> reply.message,
                       isPRD |-> reply.isPRD]
                 /\ pending' = RemoveAt(pending, lastOp'.index)
       ]_vars

\* two sends overlapped, the second was answered first, then the first: the
\* history holds both user turns, then both assistant turns
C24_Witness ==
  /\ IsReply(lastOp)
  /\ lastOp.run.request.url = "/spec/init"
  /\ ~lastOp.run.stale
  /\ pending = <<>>
  /\ Len(sessionManager.history) = 4
  /\ sessionManager.history[1].role = "user"
  /\ sessionManager.history[2].role = "user"
  /\ sessionManager.history[3].role = "assistant"
  /\ sessionManager.history[4].role = "assistant"
  /\ sessionManager.history[3].content # sessionManager.history[4].content

\* makeRequest has been entered and has not settled
InFlight(run) == run.phase \in {"fetch", "text", "json"}

(***************************************************************************)
(* C25: a reloadConfiguration while a request is in flight changes neither *)
(* the URL nor the timeout of that request (no step does); a request that  *)
(* starts takes the endpoint and the timeout loaded last.                  *)
(***************************************************************************)
C25_ReloadMidFlight ==
  [][\A r \in RequestIds :
       /\ requests[r].phase # "idle" =>
            /\ requests'[r].url = requests[r].url
            /\ requests'[r].delay = requests[r].delay
       /\ (requests[r].phase = "idle" /\ requests'[r].phase # "idle") =>
            /\ requests'[r].url[1] = baseURL
            /\ requests'[r].delay = timeout
            /\ baseURL' = baseURL
            /\ timeout' = timeout]_vars

\* a request in flight goes to an endpoint, and runs on a timeout, that the
\* client no longer has
C25_Witness ==
  \E r \in RequestIds :
    /\ InFlight(requests[r])
    /\ requests[r].url[1] # baseURL
    /\ requests[r].delay # timeout

\* the last loading notification among the messages is loading(false)
EndsLoading(messages) ==
  \E i \in 1 .. Len(messages) :
    /\ messages[i] = Loading(FALSE)
    /\ \A j \in i + 1 .. Len(messages) : messages[j].type # "loading"

(***************************************************************************)
(* C26: whenever the most recent loading notification posted by the host   *)
(* is loading(false), no request issued by a send of this panel is still   *)
(* outstanding.  A request is only issued by a step that posts             *)
(* loading(true), so it is enough to look at the steps that post           *)
(* loading(false) last.                                                    *)
(***************************************************************************)
C26_LoadingFalseMeansIdle ==
  [][EndsLoading(emitted') => ~HasOutstanding(pending')]_vars

\* the failed run belongs to the current panel and saw no reset
IsOwnFailure(op) == IsFailure(op) /\ ~op.run.stale /\ ~op.run.disposed

(***************************************************************************)
(* C27: a failed send is not rolled back.  The send appended exactly its   *)
(* user turn and left the intake alone; the failure adds no turn, removes  *)
(* none and leaves the intake alone, so the user turn of the failed send   *)
(* is still in the history; a retry, which sends the same message again,   *)
(* appends a second user turn with the same content.                      *)
(***************************************************************************)
C27_FailedSendKept ==
  [][ /\ IsAcceptedSend(lastOp') =>
           /\ sessionManager'.history =
                Append(sessionManager.history,
                       [role |-> "user", content |-> sanitizeChatMessage(lastOp'.message)])
           /\ sessionManager'.userInput = sessionManager.userInput
      /\ IsOwnFailure(lastOp') =>
           /\ sessionManager'.history = sessionManager.history
           /\ sessionManager'.userInput = sessionManager.userInput
           /\ \E k \in 1 .. Len(sessionManager'.history) :
                sessionManager'.history[k] =
                  [role |-> "user", content |-> lastOp'.run.request.body.message]
      /\ ( /\ IsOwnFailure(lastOp)
           /\ IsAcceptedSend(lastOp')
           /\ sanitizeChatMessage(lastOp'.message) = lastOp.run.request.body.message ) =>
           LET turn == [role |-> "user", content |-> lastOp.run.request.body.message]
           IN /\ sessionManager'.history = Append(sessionManager.history, turn)
              /\ \E k \in 1 .. Len(sessionManager.history) :
                   sessionManager.history[k] = turn
    ]_vars

\* a send failed and the same message was sent again: the history is the
\* user turn twice and nothing else
C27_Witness ==
  /\ IsAcceptedSend(lastOp)
  /\ Len(sessionManager.history) = 2
  /\ sessionManager.history[1] = sessionManager.history[2]
  /\ sessionManager.history[1].role = "user"
  /\ Len(pending) = 1
  /\ sends = 2

\* a sendChatMessage was posted and the host has not answered it yet: it is
\* waiting to be handled, or its request is outstanding
SendAwaitsAnswer ==
  \/ \E j \in 1 .. Len(toHost) : toHost[j].type = "sendChatMessage"
  \/ HasOutstanding(pending)

\* the step posts a sendChatMessage
PostsSend(before, after) ==
  Len(after) = Len(before) + 1 /\ after[Len(after)].type = "sendChatMessage"

(***************************************************************************)
(* C28: the webview never posts a sendChatMessage while an earlier one     *)
(* still awaits its chatResponse or error, neither from the send control   *)
(* nor from the retry action of the error notification.                    *)
(***************************************************************************)
C28_NoSendWhileAwaiting ==
  [][PostsSend(toHost, toHost') => ~SendAwaitsAnswer]_vars

\* nothing under way between webview and host, no request outstanding
Quiescent == toHost = <<>> /\ toWebview = <<>> /\ ~HasOutstanding(pending)

(***************************************************************************)
(* C29: whenever no request is outstanding and no message is in transit,   *)
(* the webview's message list and the host's history have the same length  *)
(* and the same sequence of roles.                                         *)
(***************************************************************************)
C29_ListsAgree ==
  Quiescent =>
    /\ Len(app.messages) = Len(sessionManager.history)
    /\ \A k \in 1 .. Len(app.messages) :
         app.messages[k].role = sessionManager.history[k].role

(***************************************************************************)
(* C30: on sessionCleared the webview's list becomes empty, and an empty   *)
(* list stays empty until the user sends a message: the first turn to      *)
(* enter it is a user turn, never the chatResponse of a request of the     *)
(* session before.  (The list is empty only at the start, when no request  *)
(* was made yet, and after sessionCleared.)                                *)
(***************************************************************************)
C30_ListStaysEmpty ==
  [][ /\ (toWebview # <<>> /\ Head(toWebview).type = "sessionCleared"
            /\ toWebview' = Tail(toWebview)) => app'.messages = <<>>
      /\ (app.messages = <<>> /\ app'.messages # <<>>) =>
            app'.messages[1].role = "user"
    ]_vars

====
